---- MODULE Spec2Model ----
(***************************************************************************)
(* Block distribution, reconstruction and deletion of the storage cluster  *)
(* (src/block_manager.py) together with the request handlers that drive it *)
(* (src/app.py).  Every handler is a pure operator from a state record to  *)
(* a state record; an action applies one handler to the current state.     *)
(*                                                                         *)
(* Sizes are scaled: a block holds BLOCK_SIZE bytes with BLOCK_SIZE = 2    *)
(* instead of 1 MiB, and node capacities are a few bytes.                  *)
(***************************************************************************)
EXTENDS Integers, Sequences, FiniteSets, TLC

VARIABLES
    order,            \* storage_network.nodes: the keys, in insertion order
    nodes,            \* storage_network.nodes: id -> node object
    files,            \* File table
    file_blocks,      \* FileBlock table, in insertion order
    vdisks,           \* VirtualDiskManager: node id -> virtual disk
    fs,               \* files under blocks/<node>/: <<node, file, index>> -> bytes
    dirs,             \* the directories blocks/<node>
    next_id,          \* the next fresh upload id (uuid4)
    use_virtual_disk, \* BlockManager.use_virtual_disk
    downloads,        \* uploads/download_<file>: file -> the chunks written
    timers,           \* pending cleanup timers: file -> how many
    original,         \* history: the bytes each recorded upload was given
    damage,           \* history: how many stored copies the environment damaged
    admin_ops,        \* history: how many times the registry was changed
    tasks,            \* request threads in flight: thread -> where it is
    ret               \* the response of the last handler

vars == <<order, nodes, files, file_blocks, vdisks, fs, dirs, next_id,
          use_virtual_disk, downloads, timers, original, damage, admin_ops,
          tasks, ret>>

----------------------------------------------------------------------------
(* Bounds of the model *)

MaxFiles == 2        \* uploads per behaviour (each takes a fresh id)
MaxFileLen == 3      \* bytes of the longest upload
MaxTotal == 4        \* extend_node stops at this capacity
MaxAdminOps == 2     \* add_node, extend_node and delete_node requests that succeed
MaxFaultAt == 2      \* a store_block call up to this one may raise
MaxDownloads == 2    \* cleanup timers pending at a time
MaxDamage == 2       \* stored copies the environment loses or corrupts
MaxBlockId == 3      \* block indices a placement is asked for
MaxReplicas == 3     \* replica counts a placement is asked for

(* Program constants *)

BLOCK_SIZE == 2
REPLICATION_FACTOR == 2

NodeIds == {"node1", "node2", "node3"}
AddCapacities == {2}
ExtendDeltas == {2}
NoBlock == 0 - 1      \* a NULL replica_of_block_id
Threads == {1, 2}     \* request threads of the server

----------------------------------------------------------------------------
(* Helpers on functions and sequences *)

Min(a, b) == IF a <= b THEN a ELSE b
Max(a, b) == IF a >= b THEN a ELSE b

Put(f, k, v) == [x \in DOMAIN f \cup {k} |-> IF x = k THEN v ELSE f[x]]
Drop(f, ks) == [x \in DOMAIN f \ ks |-> f[x]]

RECURSIVE SumSeq(_)
SumSeq(s) == IF s = <<>> THEN 0 ELSE Head(s) + SumSeq(Tail(s))

RECURSIVE Flatten(_)
Flatten(ss) == IF ss = <<>> THEN <<>> ELSE Head(ss) \o Flatten(Tail(ss))

RECURSIVE SeqOfSet(_)
SeqOfSet(S) ==
    IF S = {} THEN <<>>
    ELSE LET x == CHOOSE y \in S : TRUE IN <<x>> \o SeqOfSet(S \ {x})

Range(s) == {s[i] : i \in DOMAIN s}

----------------------------------------------------------------------------
(* Bytes and digests *)

\* The bytes of an upload: byte i of upload f is a value no other upload
\* and no other position shares.
Content(f, len) == [i \in 1..len |-> (f - 1) * (MaxFileLen + 1) + i]

ByteBase == (MaxFiles + 1) * (MaxFileLen + 1) + 2
CorruptByte == ByteBase - 2

RECURSIVE Encode(_)
Encode(d) == IF d = <<>> THEN 0 ELSE (Head(d) + 1) + ByteBase * Encode(Tail(d))

\* hashlib.md5(block_data).hexdigest(): a digest of the bytes, without
\* collisions on the byte strings of the model.
Md5(d) == 37 * Encode(d) + 11

\* An Optional[bytes]: None, or the bytes read.
NoData == [found |-> FALSE, data |-> <<>>]
Some(d) == [found |-> TRUE, data |-> d]
\* Python's truth value of an Optional[bytes]: None and b"" are both false.
Truthy(x) == x.found /\ x.data # <<>>

----------------------------------------------------------------------------
(* VirtualDiskManager (virtual_disk.py is not part of the sources; modelled *)
(* from the specification, section 4.3: a disk per node with a fixed       *)
(* capacity, store(key, bytes) -> success | CapacityExceeded,              *)
(* retrieve(key) -> bytes | NotFound)                                      *)

BlockKey(file_id, block_id) == <<file_id, block_id>>

create_node_disk(capacity) == [capacity |-> capacity, used |-> 0, blocks |-> <<>>]

store_block_in_disk(vd, node_id, block_data, key) ==
    IF node_id \in DOMAIN vd
       /\ vd[node_id].used + Len(block_data) <= vd[node_id].capacity
    THEN [ok |-> TRUE,
          vdisks |-> [vd EXCEPT ![node_id] =
                         [capacity |-> @.capacity,
                          used |-> @.used + Len(block_data),
                          blocks |-> Put(@.blocks, key, block_data)]]]
    ELSE [ok |-> FALSE, vdisks |-> vd]

retrieve_block_from_disk(vd, node_id, key) ==
    IF node_id \in DOMAIN vd /\ key \in DOMAIN vd[node_id].blocks
    THEN Some(vd[node_id].blocks[key])
    ELSE NoData

----------------------------------------------------------------------------
(* BlockManager *)

RECURSIVE split_without_partial(_)
split_without_partial(data) ==
    IF Len(data) < BLOCK_SIZE THEN <<>>
    ELSE <<[data |-> SubSeq(data, 1, BLOCK_SIZE),
            checksum |-> Md5(SubSeq(data, 1, BLOCK_SIZE))]>>
         \o split_without_partial(SubSeq(data, BLOCK_SIZE + 1, Len(data)))
RECURSIVE split_file_into_blocks(_)
split_file_into_blocks(data) ==
    IF data = <<>> THEN <<>>
    ELSE LET n == Min(BLOCK_SIZE, Len(data))
             block_data == SubSeq(data, 1, n)
         IN <<[data |-> block_data, checksum |-> Md5(block_data)]>>
            \o split_file_into_blocks(SubSeq(data, n + 1, Len(data)))

select_nodes_no_offset(available_nodes, block_id, num_replicas) ==
    [i \in 1..Min(num_replicas, Len(available_nodes)) |-> available_nodes[1]]
select_nodes_from_first(available_nodes, block_id, num_replicas) ==
    [i \in 1..Min(num_replicas, Len(available_nodes)) |->
        available_nodes[((i - 1) % Len(available_nodes)) + 1]]
select_nodes_for_block(available_nodes, block_id, num_replicas) ==
    IF Len(available_nodes) = 0 THEN <<>>
    ELSE [i \in 1..Min(num_replicas, Len(available_nodes)) |->
             available_nodes[((block_id + (i - 1)) % Len(available_nodes)) + 1]]

VdiskPath(node_id, file_id, block_id) == <<"vdisk", node_id, file_id, block_id>>
FsPath(node_id, file_id, block_id) == <<"fs", node_id, file_id, block_id>>
FsKey(node_id, file_id, block_id) == <<node_id, file_id, block_id>>

\* store_block: [st, path, raised]; the write of the fallback file raises when
\* the node's directory does not exist, or when the caller's `fault` says that
\* this write fails (an OSError of open() or write()).
store_block(st, block_data, node_id, file_id, block_id, fault) ==
    LET tried == IF st.use_virtual_disk
                 THEN store_block_in_disk(st.vdisks, node_id, block_data,
                                          BlockKey(file_id, block_id))
                 ELSE [ok |-> FALSE, vdisks |-> st.vdisks]
    IN IF tried.ok
       THEN [st |-> [st EXCEPT !.vdisks = tried.vdisks],
             path |-> VdiskPath(node_id, file_id, block_id), raised |-> FALSE]
       ELSE IF fault \/ node_id \notin st.dirs
       THEN [st |-> st, path |-> <<>>, raised |-> TRUE]
       ELSE [st |-> [st EXCEPT !.fs = Put(@, FsKey(node_id, file_id, block_id),
                                          block_data)],
             path |-> FsPath(node_id, file_id, block_id), raised |-> FALSE]

retrieve_block_no_fallback(st, node_id, file_id, block_id) ==
    IF st.use_virtual_disk
    THEN retrieve_block_from_disk(st.vdisks, node_id, BlockKey(file_id, block_id))
    ELSE IF FsKey(node_id, file_id, block_id) \notin DOMAIN st.fs THEN NoData
    ELSE Some(st.fs[FsKey(node_id, file_id, block_id)])
retrieve_block(st, node_id, file_id, block_id) ==
    LET data == IF st.use_virtual_disk
                THEN retrieve_block_from_disk(st.vdisks, node_id,
                                              BlockKey(file_id, block_id))
                ELSE NoData
    IN IF Truthy(data) THEN data
       ELSE IF FsKey(node_id, file_id, block_id) \notin DOMAIN st.fs THEN NoData
       ELSE Some(st.fs[FsKey(node_id, file_id, block_id)])

FileBlockAllPrimary(block_id, file_id, node_id, block_size, checksum, is_replica, data_path) ==
    [block_id |-> block_id, file_id |-> file_id, node_id |-> node_id,
     block_size |-> block_size, checksum |-> checksum, is_replica |-> FALSE,
     replica_of_block_id |-> NoBlock, data_path |-> data_path]
FileBlock(block_id, file_id, node_id, block_size, checksum, is_replica, data_path) ==
    [block_id |-> block_id, file_id |-> file_id, node_id |-> node_id,
     block_size |-> block_size, checksum |-> checksum, is_replica |-> is_replica,
     replica_of_block_id |-> IF is_replica THEN block_id ELSE NoBlock,
     data_path |-> data_path]

\* One copy of a block (lines 166-184 for the primary, 187-204 for a replica):
\* store it, add its record to the session, count it on the node.  `acc` is
\* the loop's state: st, the session's pending records, the number of
\* store_block calls so far, whether one has raised, the call that is to fail.
StoreCopy(acc, block, block_id, node_id, is_replica, file_id) ==
    IF acc.raised THEN acc
    ELSE LET s == store_block(acc.st, block.data, node_id, file_id, block_id,
                              acc.calls + 1 = acc.fail_at)
         IN IF s.raised
            THEN [acc EXCEPT !.raised = TRUE, !.calls = @ + 1]
            ELSE [acc EXCEPT
                    !.calls = @ + 1,
                    !.pending = Append(@, FileBlock(block_id, file_id, node_id,
                                                    Len(block.data), block.checksum,
                                                    is_replica, s.path)),
                    !.st = [s.st EXCEPT !.nodes[node_id].used_storage =
                                            @ + Len(block.data)]]

RECURSIVE StoreCopies(_, _, _, _, _, _)
StoreCopies(acc, block, block_id, node_ids, k, file_id) ==
    IF k > Len(node_ids) THEN acc
    ELSE StoreCopies(StoreCopy(acc, block, block_id, node_ids[k], k > 1, file_id),
                     block, block_id, node_ids, k + 1, file_id)

\* The loop of lines 159-204 from block_id on.
RECURSIVE StoreBlocks(_, _, _, _)
StoreBlocks(acc, blocks_data, block_id, file_id) ==
    IF block_id >= Len(blocks_data) \/ acc.raised \/ acc.no_nodes THEN acc
    ELSE LET node_ids == select_nodes_for_block(acc.st.order, block_id,
                                                REPLICATION_FACTOR)
         IN IF node_ids = <<>> THEN [acc EXCEPT !.no_nodes = TRUE]
            ELSE StoreBlocks(StoreCopies(acc, blocks_data[block_id + 1], block_id,
                                         node_ids, 1, file_id),
                             blocks_data, block_id + 1, file_id)

TotalBlockBytes(blocks_data) ==
    SumSeq([i \in DOMAIN blocks_data |-> Len(blocks_data[i].data)])

AvailableStorage(st) ==
    SumSeq([i \in DOMAIN st.order |->
               st.nodes[st.order[i]].total_storage - st.nodes[st.order[i]].used_storage])

total_size_needed_unreplicated(blocks_data) == TotalBlockBytes(blocks_data)
total_size_needed(blocks_data) == TotalBlockBytes(blocks_data) * REPLICATION_FACTOR

PrecheckIgnoresUsage(st, blocks_data) ==
    total_size_needed(blocks_data)
        > SumSeq([i \in DOMAIN st.order |-> st.nodes[st.order[i]].total_storage])
PrecheckFails(st, blocks_data) == total_size_needed(blocks_data) > AvailableStorage(st)

\* Lines 148-207 of distribute_file_blocks, once the blocks are there:
\* [ok, raised, st, pending].  ok is the value returned; raised says that an
\* exception left the method instead; pending are the records added to the
\* session and not committed.
DistributeBlocks(st, blocks_data, file_id, fail_at) ==
    LET acc == StoreBlocks([st |-> st, pending |-> <<>>, calls |-> 0,
                            raised |-> FALSE, no_nodes |-> FALSE, fail_at |-> fail_at],
                           blocks_data, 0, file_id)
    IN IF PrecheckFails(st, blocks_data)
       THEN [ok |-> FALSE, raised |-> FALSE, st |-> st, pending |-> <<>>]
       ELSE IF acc.raised
       THEN [ok |-> FALSE, raised |-> TRUE, st |-> acc.st, pending |-> acc.pending]
       ELSE IF acc.no_nodes
       THEN [ok |-> FALSE, raised |-> FALSE, st |-> acc.st, pending |-> acc.pending]
       ELSE [ok |-> TRUE, raised |-> FALSE,
             st |-> [acc.st EXCEPT !.file_blocks = @ \o acc.pending],
             pending |-> <<>>]

distribute_accepts_empty(st, data, file_id, fail_at) ==
    DistributeBlocks(st, split_file_into_blocks(data), file_id, fail_at)
distribute_file_blocks(st, data, file_id, fail_at) ==
    LET blocks_data == split_file_into_blocks(data)
    IN IF Len(blocks_data) = 0
       THEN [ok |-> FALSE, raised |-> FALSE, st |-> st, pending |-> <<>>]
       ELSE DistributeBlocks(st, blocks_data, file_id, fail_at)

\* FileBlock.query.filter_by(...).all(): the matching records, in table order.
BlocksOfFile(st, file_id) ==
    SelectSeq(st.file_blocks, LAMBDA b : b.file_id = file_id)
PrimariesOf(st, file_id) ==
    SelectSeq(st.file_blocks, LAMBDA b : b.file_id = file_id /\ ~b.is_replica)
ReplicasOf(st, file_id, block_id) ==
    SelectSeq(st.file_blocks,
              LAMBDA b : b.file_id = file_id /\ b.block_id = block_id /\ b.is_replica)

\* .order_by(FileBlock.block_id)
RECURSIVE OrderByBlockId(_)
OrderByBlockId(s) ==
    IF s = <<>> THEN <<>>
    ELSE LET m == CHOOSE i \in DOMAIN s :
                      /\ \A j \in DOMAIN s : s[i].block_id <= s[j].block_id
                      /\ \A j \in 1..(i - 1) : s[j].block_id > s[i].block_id
         IN <<s[m]>> \o OrderByBlockId(SubSeq(s, 1, m - 1) \o SubSeq(s, m + 1, Len(s)))

\* Lines 241-244: block_data takes each replica's bytes in turn and the loop
\* stops at the first that is neither None nor empty.
RECURSIVE FirstReadable(_, _, _, _)
FirstReadable(st, replicas, k, block_data) ==
    IF k > Len(replicas) THEN block_data
    ELSE LET got == retrieve_block(st, replicas[k].node_id, replicas[k].file_id,
                                   replicas[k].block_id)
         IN IF Truthy(got) THEN got ELSE FirstReadable(st, replicas, k + 1, got)

\* Lines 259-267: the first replica whose bytes match its own checksum.
RECURSIVE FirstValid(_, _, _)
FirstValid(st, replicas, k) ==
    IF k > Len(replicas) THEN NoData
    ELSE LET got == retrieve_block(st, replicas[k].node_id, replicas[k].file_id,
                                   replicas[k].block_id)
         IN IF Truthy(got) /\ Md5(got.data) = replicas[k].checksum THEN got
            ELSE FirstValid(st, replicas, k + 1)

\* Lines 230-272 for one primary record: the bytes to write, or NoData when
\* the method returns False at this block.
AcceptUnverified(st, block) ==
    retrieve_block(st, block.node_id, block.file_id, block.block_id)
AcceptPrimaryOnly(st, block) ==
    LET primary == retrieve_block(st, block.node_id, block.file_id, block.block_id)
    IN IF primary.found /\ Md5(primary.data) = block.checksum THEN primary ELSE NoData
AcceptedBlock(st, block) ==
    LET replicas == ReplicasOf(st, block.file_id, block.block_id)
        primary == retrieve_block(st, block.node_id, block.file_id, block.block_id)
        block_data == IF ~primary.found
                      THEN FirstReadable(st, replicas, 1, primary)
                      ELSE primary
    IN IF ~block_data.found THEN NoData
       ELSE IF Md5(block_data.data) # block.checksum
       THEN FirstValid(st, replicas, 1)
       ELSE block_data

\* The loop of lines 229-272: [ok, written].
RECURSIVE WriteBlocks(_, _, _, _)
WriteBlocks(st, blocks, k, written) ==
    IF k > Len(blocks) THEN [ok |-> TRUE, written |-> written]
    ELSE LET got == AcceptedBlock(st, blocks[k])
         IN IF ~got.found THEN [ok |-> FALSE, written |-> written]
            ELSE WriteBlocks(st, blocks, k + 1, Append(written, got.data))

\* reconstruct_file: [ok, opened, written]; opened says that the output file
\* was created or truncated, written is what the writes put into it.
reconstruct_file(st, file_id) ==
    LET blocks == OrderByBlockId(PrimariesOf(st, file_id))
        w == WriteBlocks(st, blocks, 1, <<>>)
    IN IF blocks = <<>>
       THEN [ok |-> FALSE, opened |-> FALSE, written |-> <<>>]
       ELSE [ok |-> w.ok, opened |-> TRUE, written |-> w.written]

\* os.path.exists(block.data_path): a vdisk://... location is no path of the
\* file system.
OsPathExists(st, data_path) ==
    /\ data_path # <<>>
    /\ data_path[1] = "fs"
    /\ FsKey(data_path[2], data_path[3], data_path[4]) \in DOMAIN st.fs

\* Lines 283-297 for one record; the removal fails (and is swallowed) for a
\* file under the directory of a node in `bad`.
DeleteOne(st, block, bad) ==
    LET removed ==
            IF OsPathExists(st, block.data_path) /\ block.node_id \notin bad
            THEN [st EXCEPT !.fs = Drop(@, {FsKey(block.data_path[2],
                                                 block.data_path[3],
                                                 block.data_path[4])})]
            ELSE st
        counted ==
            IF block.node_id \in Range(removed.order)
            THEN [removed EXCEPT !.nodes[block.node_id].used_storage =
                                     Max(0, @ - block.block_size)]
            ELSE removed
    IN [counted EXCEPT !.file_blocks = SelectSeq(@, LAMBDA b : b # block)]

RECURSIVE DeleteEach(_, _, _, _)
DeleteEach(st, blocks, k, bad) ==
    IF k > Len(blocks) THEN st
    ELSE DeleteEach(DeleteOne(st, blocks[k], bad), blocks, k + 1, bad)

delete_blocks_unfiltered(st, file_id, bad) ==
    DeleteEach(st, st.file_blocks, 1, bad)
delete_primary_blocks_only(st, file_id, bad) ==
    DeleteEach(st, PrimariesOf(st, file_id), 1, bad)
delete_file_blocks(st, file_id, bad) ==
    DeleteEach(st, BlocksOfFile(st, file_id), 1, bad)

----------------------------------------------------------------------------
(* The request handlers of app.py *)

Cur == [order |-> order, nodes |-> nodes, files |-> files,
        file_blocks |-> file_blocks, vdisks |-> vdisks, fs |-> fs, dirs |-> dirs,
        next_id |-> next_id, use_virtual_disk |-> use_virtual_disk,
        downloads |-> downloads, timers |-> timers, original |-> original,
        damage |-> damage, admin_ops |-> admin_ops, tasks |-> tasks,
        ret |-> ret]

Becomes(st) ==
    /\ order' = st.order
    /\ nodes' = st.nodes
    /\ files' = st.files
    /\ file_blocks' = st.file_blocks
    /\ vdisks' = st.vdisks
    /\ fs' = st.fs
    /\ dirs' = st.dirs
    /\ next_id' = st.next_id
    /\ use_virtual_disk' = st.use_virtual_disk
    /\ downloads' = st.downloads
    /\ timers' = st.timers
    /\ original' = st.original
    /\ damage' = st.damage
    /\ admin_ops' = st.admin_ops
    /\ tasks' = st.tasks
    /\ ret' = st.ret

\* What a handler answers: the request, whether it flashed 'success', the
\* upload or file it was about and its size, the node it was about, and
\* whether a warning was flashed beside the answer.
Answer(op, ok, file_id, size, node_id, warning) ==
    [op |-> op, ok |-> ok, file |-> file_id, size |-> size, node |-> node_id,
     warning |-> warning]
Response(op, ok, file_id, node_id) == Answer(op, ok, file_id, 0, node_id, FALSE)

\* sum(block.block_size for block in FileBlock.query.filter_by(node_id=...))
BlockBytesOn(st, node_id) ==
    LET on == SelectSeq(st.file_blocks, LAMBDA b : b.node_id = node_id)
    IN SumSeq([i \in DOMAIN on |-> on[i].block_size])

\* "Refresh node storage from database": app.py lines 180-182, 258-260,
\* 273-279 and 414-416.
RefreshAccumulates(st) ==
    [st EXCEPT !.nodes = [n \in DOMAIN st.nodes |->
                             [st.nodes[n] EXCEPT !.used_storage = @ + BlockBytesOn(st, n)]]]
RefreshNodeStorage(st) ==
    [st EXCEPT !.nodes = [n \in DOMAIN st.nodes |->
                             [st.nodes[n] EXCEPT !.used_storage = BlockBytesOn(st, n)]]]

\* upload_file, for an upload of `len` bytes whose fail_at-th store_block
\* call, if it writes a file, raises.
upload_file(st, len, fail_at) ==
    LET file_id == st.next_id
        data == Content(file_id, len)
        created == [st EXCEPT !.next_id = @ + 1,
                              !.files = @ \cup {[file_id |-> file_id, file_size |-> len]},
                              !.original = Put(@, file_id, data)]
        d == distribute_file_blocks(created, data, file_id, fail_at)
    IN IF d.raised
       THEN \* db.session.rollback(): the pending block records are dropped
            [d.st EXCEPT !.ret = Answer("upload", FALSE, file_id, len, "", FALSE)]
       ELSE IF d.ok
       THEN [RefreshNodeStorage(d.st) EXCEPT
                 !.ret = Answer("upload", TRUE, file_id, len, "", FALSE)]
       ELSE \* db.session.delete(db_file); the commit flushes the session
            [d.st EXCEPT !.files = {f \in @ : f.file_id # file_id},
                         !.file_blocks = @ \o d.pending,
                         !.original = Drop(@, {file_id}),
                         !.ret = Answer("upload", FALSE, file_id, len, "", FALSE)]

FileIds(st) == {f.file_id : f \in st.files}

download_unscheduled(st, file_id) ==
    IF file_id \notin FileIds(st)
    THEN [st EXCEPT !.ret = Response("download", FALSE, file_id, "")]
    ELSE LET r == reconstruct_file(st, file_id)
         IN [st EXCEPT !.downloads = IF r.opened THEN Put(@, file_id, r.written) ELSE @,
                       !.ret = Response("download", r.ok, file_id, "")]
download_file(st, file_id) ==
    IF file_id \notin FileIds(st)
    THEN [st EXCEPT !.ret = Response("download", FALSE, file_id, "")]
    ELSE LET r == reconstruct_file(st, file_id)
             out == IF r.opened THEN Put(st.downloads, file_id, r.written)
                    ELSE st.downloads
         IN IF ~r.ok
            THEN [st EXCEPT !.downloads = out,
                            !.ret = Response("download", FALSE, file_id, "")]
            ELSE [st EXCEPT !.downloads = out,
                            !.timers = Put(@, file_id,
                                           IF file_id \in DOMAIN @ THEN @[file_id] + 1
                                           ELSE 1),
                            !.ret = Response("download", TRUE, file_id, "")]

\* cleanup_file, run by the threading.Timer of line 228
cleanup_file(st, file_id) ==
    [st EXCEPT !.downloads = Drop(@, {file_id}),
               !.timers = IF @[file_id] = 1 THEN Drop(@, {file_id})
                          ELSE [@ EXCEPT ![file_id] = @ - 1],
               !.ret = Response("cleanup", TRUE, file_id, "")]

delete_file(st, file_id, bad) ==
    IF file_id \notin FileIds(st)
    THEN [st EXCEPT !.ret = Response("delete", FALSE, file_id, "")]
    ELSE LET deleted == delete_file_blocks(st, file_id, bad)
             gone == [deleted EXCEPT !.files = {f \in @ : f.file_id # file_id},
                                     !.original = Drop(@, {file_id})]
         IN [RefreshNodeStorage(gone) EXCEPT
                !.ret = Response("delete", TRUE, file_id, "")]

admin_dashboard(st) ==
    [RefreshNodeStorage(st) EXCEPT !.ret = Response("admin", TRUE, 0, "")]

StorageVirtualNode(storage_capacity) ==
    [total_storage |-> storage_capacity, used_storage |-> 0, connections |-> {}]

\* storage_network.connect_nodes(a, b, ...): a link in both directions
connect_nodes(ns, a, b) ==
    [ns EXCEPT ![a].connections = @ \cup {b}, ![b].connections = @ \cup {a}]

RECURSIVE ConnectAll(_, _, _)
ConnectAll(ns, node_id, others) ==
    IF others = <<>> THEN ns
    ELSE ConnectAll(connect_nodes(ns, node_id, Head(others)), node_id, Tail(others))

add_node(st, node_id, storage) ==
    IF node_id \in Range(st.order)
    THEN [st EXCEPT !.ret = Response("add_node", FALSE, 0, node_id)]
    ELSE [st EXCEPT
            !.nodes = ConnectAll(Put(@, node_id, StorageVirtualNode(storage)),
                                 node_id, st.order),
            !.order = Append(@, node_id),
            !.dirs = @ \cup {node_id},
            !.ret = Response("add_node", TRUE, 0, node_id)]

extend_node(st, node_id, additional_bytes) ==
    IF node_id \notin Range(st.order)
    THEN [st EXCEPT !.ret = Response("extend_node", FALSE, 0, node_id)]
    ELSE [st EXCEPT !.nodes[node_id].total_storage = @ + additional_bytes,
                    !.ret = Response("extend_node", TRUE, 0, node_id)]

\* Lines 370-387 of delete_node: the directory, the registry, the links.
\* rmtree_fails: shutil.rmtree raises (caught: a warning is flashed and the
\* node is removed all the same).
RemoveNode(st, node_id, rmtree_fails) ==
    LET cleared ==
            IF node_id \in st.dirs /\ ~rmtree_fails
            THEN [st EXCEPT !.dirs = @ \ {node_id},
                            !.fs = Drop(@, {k \in DOMAIN @ : k[1] = node_id})]
            ELSE st
        left == Drop(cleared.nodes, {node_id})
    IN [cleared EXCEPT
          !.nodes = [n \in DOMAIN left |->
                        [left[n] EXCEPT !.connections = @ \ {node_id}]],
          !.order = SelectSeq(@, LAMBDA n : n # node_id),
          !.ret = Answer("delete_node", TRUE, 0, 0, node_id,
                         node_id \in st.dirs /\ rmtree_fails)]

delete_node_unguarded(st, node_id, rmtree_fails) ==
    IF node_id \notin Range(st.order)
    THEN [st EXCEPT !.ret = Response("delete_node", FALSE, 0, node_id)]
    ELSE RemoveNode(st, node_id, rmtree_fails)
delete_node(st, node_id, rmtree_fails) ==
    IF node_id \notin Range(st.order)
    THEN [st EXCEPT !.ret = Response("delete_node", FALSE, 0, node_id)]
    ELSE IF st.nodes[node_id].used_storage > 0
    THEN [st EXCEPT !.ret = Response("delete_node", FALSE, 0, node_id)]
    ELSE RemoveNode(st, node_id, rmtree_fails)

----------------------------------------------------------------------------
(* The environment: a stored copy is lost, or its bytes are altered *)

\* The stored copies: <<backend, node, file, index>>
StoredCopies(st) ==
    UNION {{VdiskPath(n, k[1], k[2]) : k \in DOMAIN st.vdisks[n].blocks} :
              n \in DOMAIN st.vdisks} \cup
    {FsPath(k[1], k[2], k[3]) : k \in DOMAIN st.fs}

BytesAt(st, copy) ==
    IF copy[1] = "vdisk" THEN st.vdisks[copy[2]].blocks[BlockKey(copy[3], copy[4])]
    ELSE st.fs[FsKey(copy[2], copy[3], copy[4])]

WriteAt(st, copy, bytes) ==
    IF copy[1] = "vdisk"
    THEN [st EXCEPT !.vdisks[copy[2]].blocks[BlockKey(copy[3], copy[4])] = bytes]
    ELSE [st EXCEPT !.fs[FsKey(copy[2], copy[3], copy[4])] = bytes]

RemoveAt(st, copy) ==
    IF copy[1] = "vdisk"
    THEN [st EXCEPT !.vdisks[copy[2]].blocks = Drop(@, {BlockKey(copy[3], copy[4])})]
    ELSE [st EXCEPT !.fs = Drop(@, {FsKey(copy[2], copy[3], copy[4])})]

\* What altered bytes may be: the first byte changed, or nothing left.
Altered(bytes) ==
    IF bytes = <<>> THEN {<<CorruptByte>>}
    ELSE {<<CorruptByte>> \o Tail(bytes), <<>>}

----------------------------------------------------------------------------
(* Requests served by concurrent threads.  The server runs each request in a
   thread of its own and nothing in app.py or block_manager.py takes a lock:
   a thread may be suspended between the read and the write of
   `node.used_storage += n`, and between the query and the assignment of a
   refresh.  A thread's session is its own: what it has added or deleted is
   seen by the others once it commits. *)

IdleTask ==
    [pc |-> "idle", kind |-> "none", file |-> 0, size |-> 0, todo |-> <<>>,
     reg |-> 0, pending |-> <<>>, scan |-> <<>>, out |-> <<>>,
     unlinked |-> FALSE]

\* The copies the block loop (lines 159-204) is going to store, in its order
CopiesToStore(st, blocks_data) ==
    Flatten([i \in DOMAIN blocks_data |->
                LET node_ids == select_nodes_for_block(st.order, i - 1,
                                                       REPLICATION_FACTOR)
                IN [k \in DOMAIN node_ids |->
                       [block_id |-> i - 1, node_id |-> node_ids[k],
                        is_replica |-> k > 1, data |-> blocks_data[i].data,
                        checksum |-> blocks_data[i].checksum]]])

\* upload_file up to the block loop: the File record is committed
\* (app.py:167-175), the file is split and the precheck has passed
\* (block_manager.py:143-156).
task_begin_upload(st, t, len) ==
    LET file_id == st.next_id
        data == Content(file_id, len)
        created == [st EXCEPT !.next_id = @ + 1,
                              !.files = @ \cup {[file_id |-> file_id, file_size |-> len]},
                              !.original = Put(@, file_id, data)]
    IN [created EXCEPT !.tasks[t] =
           [IdleTask EXCEPT !.pc = "load", !.kind = "upload", !.file = file_id,
                            !.size = len,
                            !.todo = CopiesToStore(st, split_file_into_blocks(data))]]

\* delete_file up to the loop of delete_file_blocks (app.py:240-251,
\* block_manager.py:281).
task_begin_delete(st, t, file_id) ==
    [st EXCEPT !.tasks[t] =
        [IdleTask EXCEPT !.pc = IF BlocksOfFile(st, file_id) = <<>> THEN "commit"
                               ELSE "load",
                         !.kind = "delete", !.file = file_id,
                         !.todo = BlocksOfFile(st, file_id)]]

\* Up to the read of the counter.  Upload: store_block, the record added to
\* the session, the read of `node.used_storage +=` (lines 168-184, 188-204).
\* Delete: the removal of the file, the read of node.used_storage (lines
\* 285-294).
task_load(st, t) ==
    LET me == st.tasks[t]
        c == Head(me.todo)
        s == store_block(st, c.data, c.node_id, me.file, c.block_id, FALSE)
        removed == IF OsPathExists(st, c.data_path)
                   THEN [st EXCEPT !.fs = Drop(@, {FsKey(c.data_path[2], c.data_path[3],
                                                        c.data_path[4])})]
                   ELSE st
    IN IF me.kind = "upload"
       THEN [s.st EXCEPT
               !.tasks[t].reg = s.st.nodes[c.node_id].used_storage,
               !.tasks[t].pending =
                   Append(@, FileBlock(c.block_id, me.file, c.node_id, Len(c.data),
                                       c.checksum, c.is_replica, s.path)),
               !.tasks[t].pc = "store"]
       ELSE [removed EXCEPT
               !.tasks[t].reg = IF c.node_id \in Range(st.order)
                                THEN st.nodes[c.node_id].used_storage ELSE 0,
               !.tasks[t].pc = "store"]

\* The write of the counter (lines 184, 204; line 294 and the record's
\* deletion from the session, line 297).
task_store(st, t) ==
    LET me == st.tasks[t]
        c == Head(me.todo)
        rest == Tail(me.todo)
        after == IF rest = <<>> THEN "commit" ELSE "load"
    IN IF me.kind = "upload"
       THEN [st EXCEPT !.nodes[c.node_id].used_storage = me.reg + Len(c.data),
                       !.tasks[t].todo = rest,
                       !.tasks[t].pc = after]
       ELSE [(IF c.node_id \in Range(st.order)
              THEN [st EXCEPT !.nodes[c.node_id].used_storage =
                                  Max(0, me.reg - c.block_size)]
              ELSE st)
             EXCEPT !.tasks[t].todo = rest,
                    !.tasks[t].pending = Append(@, c),
                    !.tasks[t].pc = after]

\* db.session.commit() (line 206; line 299 and app.py:254-255); the refresh
\* of the handler comes next.
task_commit(st, t) ==
    LET me == st.tasks[t]
        committed ==
            IF me.kind = "upload"
            THEN [st EXCEPT !.file_blocks = @ \o me.pending]
            ELSE [st EXCEPT !.file_blocks = SelectSeq(@, LAMBDA b : b \notin Range(me.pending)),
                            !.files = {f \in @ : f.file_id # me.file},
                            !.original = Drop(@, {me.file})]
    IN [committed EXCEPT !.tasks[t].pending = <<>>,
                         !.tasks[t].scan = st.order,
                         !.tasks[t].pc = IF st.order = <<>> THEN "answer" ELSE "query"]

\* blocks_on_node = FileBlock.query.filter_by(node_id=...).all() and the sum
\* (app.py:181-182, 259-260), for the next node of the loop
task_query(st, t) ==
    [st EXCEPT !.tasks[t].reg = BlockBytesOn(st, Head(st.tasks[t].scan)),
               !.tasks[t].pc = "assign"]

\* node.used_storage = ... (app.py:182, 260)
task_assign(st, t) ==
    LET me == st.tasks[t]
        rest == Tail(me.scan)
    IN [st EXCEPT !.nodes[Head(me.scan)].used_storage = me.reg,
                  !.tasks[t].scan = rest,
                  !.tasks[t].pc = IF rest = <<>> THEN "answer" ELSE "query"]

\* The flash of the success and the redirect (app.py:184, 262-263)
task_answer(st, t) ==
    LET me == st.tasks[t]
    IN [st EXCEPT !.tasks[t] = IdleTask,
                  !.ret = IF me.kind = "upload"
                          THEN Answer("upload", TRUE, me.file, me.size, "", FALSE)
                          ELSE Response("delete", TRUE, me.file, "")]

\* download_file up to the open of the output (app.py:202-214,
\* block_manager.py:218-228): the primaries are queried, and open(..., 'wb')
\* creates uploads/download_<file_id> or truncates the file that is there.
task_begin_download(st, t, file_id) ==
    LET blocks == OrderByBlockId(PrimariesOf(st, file_id))
    IN IF file_id \notin FileIds(st) \/ blocks = <<>>
       THEN [st EXCEPT !.ret = Response("download", FALSE, file_id, "")]
       ELSE [st EXCEPT !.downloads = Put(@, file_id, <<>>),
                       !.tasks[t] = [IdleTask EXCEPT !.pc = "write",
                                                     !.kind = "download",
                                                     !.file = file_id,
                                                     !.todo = blocks]]

\* The loop of reconstruct_file and the close of the output
\* (block_manager.py:229-274), then the start of the timer (app.py:228).
\* The writes go to the file this thread opened: when its path was removed
\* since, they do not show under the path.
task_write(st, t) ==
    LET me == st.tasks[t]
        w == WriteBlocks(st, me.todo, 1, <<>>)
        wrote == IF me.unlinked THEN st
                 ELSE [st EXCEPT !.downloads = Put(@, me.file, w.written)]
    IN IF ~w.ok
       THEN [wrote EXCEPT !.tasks[t] = IdleTask,
                          !.ret = Response("download", FALSE, me.file, "")]
       ELSE [wrote EXCEPT
               !.timers = Put(@, me.file,
                              IF me.file \in DOMAIN @ THEN @[me.file] + 1 ELSE 1),
               !.tasks[t].out = w.written,
               !.tasks[t].todo = <<>>,
               !.tasks[t].pc = "send"]

\* send_file has sent the artifact (app.py:230-234)
task_sent(st, t) ==
    [st EXCEPT !.tasks[t] = IdleTask,
               !.ret = Response("download", TRUE, st.tasks[t].file, "")]

\* cleanup_file run by a timer while requests are being served: the path is
\* removed, and a thread that has the file open for writing keeps writing to
\* a file without a name.
task_cleanup(st, file_id) ==
    LET cleaned == cleanup_file(st, file_id)
    IN [cleaned EXCEPT
          !.tasks = [t \in DOMAIN @ |->
                        IF @[t].pc = "write" /\ @[t].file = file_id
                        THEN [@[t] EXCEPT !.unlinked = TRUE]
                        ELSE @[t]]]

----------------------------------------------------------------------------
(* The state machine *)

Node1Capacity == 2
Node2Capacity == 4

Init ==
    /\ order = <<"node1", "node2">>
    /\ nodes = [n \in {"node1", "node2"} |->
                   [total_storage |-> IF n = "node1" THEN Node1Capacity
                                      ELSE Node2Capacity,
                    used_storage |-> 0,
                    connections |-> {"node1", "node2"} \ {n}]]
    /\ files = {}
    /\ file_blocks = <<>>
    /\ use_virtual_disk \in BOOLEAN
    \* BlockManager.__init__ creates a disk for each node registered at that
    \* moment: both nodes for a manager built on the populated network, none
    \* for the manager app.py builds before the default nodes are registered.
    /\ vdisks \in IF use_virtual_disk
                  THEN {[n \in {"node1", "node2"} |->
                            create_node_disk(nodes[n].total_storage)],
                        <<>>}
                  ELSE {<<>>}
    /\ fs = <<>>
    /\ dirs = {"node1", "node2"}
    /\ next_id = 1
    /\ downloads = <<>>
    /\ timers = <<>>
    /\ original = <<>>
    /\ damage = 0
    /\ admin_ops = 0
    /\ tasks = [t \in Threads |-> IdleTask]
    /\ ret = Response("start", TRUE, 0, "")

BadSets == {{}} \cup {{n} : n \in NodeIds}

Upload ==
    /\ next_id <= MaxFiles
    /\ \E len \in 0..MaxFileLen, fail_at \in 0..MaxFaultAt :
           Becomes(upload_file(Cur, len, fail_at))

PendingTimers == SumSeq([i \in 1..Len(SeqOfSet(DOMAIN timers)) |->
                            timers[SeqOfSet(DOMAIN timers)[i]]])

Download ==
    /\ PendingTimers < MaxDownloads
    /\ \E file_id \in 1..MaxFiles : Becomes(download_file(Cur, file_id))

\* The timer of a download of file_id fires
CleanupOf(file_id) ==
    /\ file_id \in DOMAIN timers
    /\ Becomes(cleanup_file(Cur, file_id))

Cleanup ==
    /\ timers # <<>>
    /\ \E file_id \in DOMAIN timers : CleanupOf(file_id)

Delete ==
    /\ next_id > 1
    /\ \E file_id \in 1..MaxFiles, bad \in BadSets :
           Becomes(delete_file(Cur, file_id, bad))

AdminDashboard ==
    /\ order # <<>>
    /\ Becomes(admin_dashboard(Cur))

\* A registry request, counted when it succeeds
Counted(st) == IF st.ret.ok THEN [st EXCEPT !.admin_ops = @ + 1] ELSE st

AddNode ==
    /\ admin_ops < MaxAdminOps
    /\ \E node_id \in NodeIds, storage \in AddCapacities :
           Becomes(Counted(add_node(Cur, node_id, storage)))

ExtendNode ==
    /\ admin_ops < MaxAdminOps
    /\ \E node_id \in NodeIds, delta \in ExtendDeltas :
           /\ node_id \in DOMAIN nodes =>
                  nodes[node_id].total_storage + delta <= MaxTotal
           /\ Becomes(Counted(extend_node(Cur, node_id, delta)))

DeleteNode ==
    /\ admin_ops < MaxAdminOps
    /\ \E node_id \in NodeIds, rmtree_fails \in BOOLEAN :
           Becomes(Counted(delete_node(Cur, node_id, rmtree_fails)))

LoseCopy ==
    /\ damage < MaxDamage
    /\ \E copy \in StoredCopies(Cur) :
           Becomes([RemoveAt(Cur, copy) EXCEPT
                       !.damage = @ + 1,
                       !.ret = Response("lose", TRUE, copy[3], copy[2])])

CorruptCopy ==
    /\ damage < MaxDamage
    /\ \E copy \in StoredCopies(Cur) :
           \E bytes \in Altered(BytesAt(Cur, copy)) \ {BytesAt(Cur, copy)} :
               Becomes([WriteAt(Cur, copy, bytes) EXCEPT
                           !.damage = @ + 1,
                           !.ret = Response("corrupt", TRUE, copy[3], copy[2])])

\* A thread takes an upload of one block whose precheck passes
TaskBeginUpload ==
    /\ next_id <= MaxFiles
    /\ \E t \in Threads, len \in 1..BLOCK_SIZE :
           /\ tasks[t].pc = "idle"
           /\ ~PrecheckFails(Cur, split_file_into_blocks(Content(next_id, len)))
           /\ Becomes(task_begin_upload(Cur, t, len))

\* A thread takes the delete of a file that no thread is working on
TaskBeginDelete ==
    /\ files # {}
    /\ \E t \in Threads, file_id \in FileIds(Cur) :
           /\ tasks[t].pc = "idle"
           /\ \A u \in Threads : tasks[u].file # file_id
           /\ Becomes(task_begin_delete(Cur, t, file_id))

TaskLoad ==
    /\ \E t \in Threads : tasks[t].pc = "load"
    /\ \E t \in Threads : tasks[t].pc = "load" /\ Becomes(task_load(Cur, t))

TaskStore ==
    /\ \E t \in Threads : tasks[t].pc = "store"
    /\ \E t \in Threads : tasks[t].pc = "store" /\ Becomes(task_store(Cur, t))

TaskCommit ==
    /\ \E t \in Threads : tasks[t].pc = "commit"
    /\ \E t \in Threads : tasks[t].pc = "commit" /\ Becomes(task_commit(Cur, t))

TaskQuery ==
    /\ \E t \in Threads : tasks[t].pc = "query"
    /\ \E t \in Threads : tasks[t].pc = "query" /\ Becomes(task_query(Cur, t))

TaskAssign ==
    /\ \E t \in Threads : tasks[t].pc = "assign"
    /\ \E t \in Threads : tasks[t].pc = "assign" /\ Becomes(task_assign(Cur, t))

TaskAnswer ==
    /\ \E t \in Threads : tasks[t].pc = "answer"
    /\ \E t \in Threads : tasks[t].pc = "answer" /\ Becomes(task_answer(Cur, t))

\* The threads that are sending the artifact of file_id
Senders(file_id) ==
    {t \in Threads : tasks[t].pc = "send" /\ tasks[t].file = file_id}

\* A thread takes a download
TaskBeginDownload ==
    /\ PendingTimers + Cardinality({t \in Threads : tasks[t].pc = "write"})
           < MaxDownloads
    /\ \E t \in Threads, file_id \in 1..MaxFiles :
           /\ tasks[t].pc = "idle"
           /\ Becomes(task_begin_download(Cur, t, file_id))

TaskWrite ==
    /\ \E t \in Threads : tasks[t].pc = "write"
    /\ \E t \in Threads : tasks[t].pc = "write" /\ Becomes(task_write(Cur, t))

TaskSent ==
    /\ \E t \in Threads : tasks[t].pc = "send"
    /\ \E t \in Threads : tasks[t].pc = "send" /\ Becomes(task_sent(Cur, t))

\* A timer fires 300 seconds after its download started it (app.py:228): a
\* timer of a download that is still sending has not run out yet.
TimerFires ==
    /\ timers # <<>>
    /\ \E file_id \in DOMAIN timers :
           /\ timers[file_id] > Cardinality(Senders(file_id))
           /\ Becomes(task_cleanup(Cur, file_id))

Next ==
    \/ Upload
    \/ Download
    \/ Cleanup
    \/ Delete
    \/ AdminDashboard
    \/ AddNode
    \/ ExtendNode
    \/ DeleteNode

Spec == Init /\ [][Next]_vars

\* The requests that change what is stored and what is registered
NextStorage ==
    \/ Upload
    \/ Delete
    \/ AdminDashboard
    \/ AddNode
    \/ ExtendNode
    \/ DeleteNode

SpecStorage == Init /\ [][NextStorage]_vars

\* Uploads and downloads on two or three nodes, with an environment that
\* damages stored copies
NextDamage ==
    \/ Upload
    \/ Download
    \/ AddNode
    \/ LoseCopy
    \/ CorruptCopy

SpecDamage == Init /\ [][NextDamage]_vars

\* Uploads, downloads and deletes with the cleanup timers; a threading.Timer
\* that was started fires once its delay has passed.
NextCleanup ==
    \/ Upload
    \/ Download
    \/ Cleanup
    \/ Delete

SpecCleanup ==
    /\ Init
    /\ [][NextCleanup]_vars
    /\ \A file_id \in 1..MaxFiles : WF_vars(CleanupOf(file_id))

\* Uploads and deletes served by two threads at a time
NextConcurrent ==
    \/ TaskBeginUpload
    \/ TaskBeginDelete
    \/ TaskLoad
    \/ TaskStore
    \/ TaskCommit
    \/ TaskQuery
    \/ TaskAssign
    \/ TaskAnswer

SpecConcurrent == Init /\ [][NextConcurrent]_vars

\* Uploads and deletes on a registry that only grows
NextCapacity ==
    \/ Upload
    \/ Delete
    \/ AddNode
    \/ ExtendNode

SpecCapacity == Init /\ [][NextCapacity]_vars

\* Uploads, and downloads served by two threads at a time, with the timers
NextSending ==
    \/ Upload
    \/ TaskBeginDownload
    \/ TaskWrite
    \/ TaskSent
    \/ TimerFires

SpecSending == Init /\ [][NextSending]_vars

----------------------------------------------------------------------------
(* Claims *)

\* C1 (capacity invariant): in every state, for every registered node,
\* used_storage equals the sum of the sizes of the block records, primary
\* and replica, whose node_id is that node.
C1_CapacityInvariant ==
    \A n \in DOMAIN nodes : nodes[n].used_storage = BlockBytesOn(Cur, n)

\* C2 (per-node capacity bound): every node has used_storage <= total_storage
\* in every state.
C2_PerNodeBound ==
    \A n \in DOMAIN nodes : nodes[n].used_storage <= nodes[n].total_storage

\* The free bytes of the cluster, summed node by node
FreeBytes ==
    LET ids == SeqOfSet(DOMAIN nodes)
    IN SumSeq([i \in DOMAIN ids |->
                  nodes[ids[i]].total_storage - nodes[ids[i]].used_storage])

\* C3 (atomic precheck): an upload of size > 0 made while the free bytes of
\* all nodes together are fewer than size x REPLICATION_FACTOR is answered
\* with a failure, and adds no block record, stores no bytes on a virtual
\* disk or in the file system, and changes no node's used_storage.
C3_AtomicPrecheck ==
    [][(/\ ret'.op = "upload"
        /\ next_id' = next_id + 1
        /\ ret'.size > 0
        /\ FreeBytes < ret'.size * REPLICATION_FACTOR)
       => (/\ ~ret'.ok
           /\ file_blocks' = file_blocks
           /\ vdisks' = vdisks
           /\ fs' = fs
           /\ nodes' = nodes
           /\ files' = files)]_vars

\* C3's case: a failed upload of a file that is not empty, refused while
\* blocks of an earlier file are stored and the free bytes fall short.
C3_Witness ==
    /\ ret.op = "upload"
    /\ ~ret.ok
    /\ ret.size > 0
    /\ FreeBytes < ret.size * REPLICATION_FACTOR
    /\ file_blocks # <<>>
    /\ C1_CapacityInvariant

\* The bytes of block i of an upload, and how many blocks it has
BlockBytes(data, i) ==
    SubSeq(data, i * BLOCK_SIZE + 1, Min((i + 1) * BLOCK_SIZE, Len(data)))
NumBlocks(len) == (len + BLOCK_SIZE - 1) \div BLOCK_SIZE

Records == Range(file_blocks)
RecordsOf(f) == {b \in Records : b.file_id = f}

\* The copy a record names is where it was stored, with these bytes
Present(b) == b.data_path \in StoredCopies(Cur)
Intact(b) ==
    /\ Present(b)
    /\ BytesAt(Cur, b.data_path) = BlockBytes(original[b.file_id], b.block_id)
ChecksumValid(b) ==
    /\ Present(b)
    /\ Md5(BytesAt(Cur, b.data_path)) = b.checksum

\* C4 (round trip with replica fallback): a download of a file that was
\* distributed, made while every block index still has at least one intact
\* stored copy (primary or replica), succeeds and writes exactly the bytes
\* that were uploaded, in order.
C4_RoundTrip ==
    (/\ ret.op = "download"
     /\ RecordsOf(ret.file) # {}
     /\ \A i \in 0..(NumBlocks(Len(original[ret.file])) - 1) :
            \E b \in RecordsOf(ret.file) : b.block_id = i /\ Intact(b))
    => (/\ ret.ok
        /\ ret.file \in DOMAIN downloads
        /\ Flatten(downloads[ret.file]) = original[ret.file])

\* C4's case: a successful download of a file one of whose primary copies is
\* gone and another of whose primary copies is there with altered bytes.
C4_Witness ==
    /\ ret.op = "download"
    /\ ret.ok
    /\ Flatten(downloads[ret.file]) = original[ret.file]
    /\ \E p, q \in RecordsOf(ret.file) :
           /\ ~p.is_replica /\ ~Present(p)
           /\ ~q.is_replica /\ Present(q) /\ ~Intact(q)

\* C5 (reconstruction fails closed): a download succeeds only if it wrote one
\* chunk per block index 0, 1, ... of the file, each with the checksum of
\* that index's primary record; and when some index has neither a primary nor
\* a replica whose stored bytes match the recorded checksum, it fails.
C5_FailsClosed ==
    ret.op = "download" =>
        /\ ret.ok =>
               LET w == downloads[ret.file]
                   prim == {b \in RecordsOf(ret.file) : ~b.is_replica}
               IN /\ Len(w) = Cardinality(prim)
                  /\ \A k \in DOMAIN w :
                         \E b \in prim : b.block_id = k - 1 /\ Md5(w[k]) = b.checksum
        /\ (\E p \in RecordsOf(ret.file) :
                /\ ~p.is_replica
                /\ \A c \in RecordsOf(ret.file) :
                       c.block_id = p.block_id => ~ChecksumValid(c))
           => ~ret.ok

\* C5's case: a failed download that had written block 0 when it found both
\* copies of block 1 there with altered bytes.
C5_Witness ==
    /\ ret.op = "download"
    /\ ~ret.ok
    /\ ret.file \in DOMAIN downloads
    /\ Len(downloads[ret.file]) = 1
    /\ \E p \in RecordsOf(ret.file) :
           /\ ~p.is_replica
           /\ p.block_id = 1
           /\ \A c \in RecordsOf(ret.file) :
                  c.block_id = 1 => Present(c) /\ ~ChecksumValid(c)

\* The records of file f for block index i, counted in the table
CountRecords(f, i, replica) ==
    Cardinality({k \in DOMAIN file_blocks :
                    /\ file_blocks[k].file_id = f
                    /\ file_blocks[k].block_id = i
                    /\ file_blocks[k].is_replica = replica})

\* What C6 says of the state after a successful upload of file f of `size`
\* bytes on the registered nodes
C6_Copies(f, size) ==
    LET B == NumBlocks(size)
        c == Min(REPLICATION_FACTOR, Len(order))
    IN /\ Len(BlocksOfFile(Cur, f)) = B * c
       /\ Cardinality({copy \in StoredCopies(Cur) : copy[3] = f}) = B * c
       /\ \A i \in 0..(B - 1) :
              /\ CountRecords(f, i, FALSE) + CountRecords(f, i, TRUE) = c
              /\ Cardinality({b.node_id : b \in {r \in RecordsOf(f) : r.block_id = i}}) = c
              /\ \A b \in RecordsOf(f) : b.block_id = i => Intact(b)
              /\ (Len(order) = 2 /\ REPLICATION_FACTOR = 2) =>
                     \A n \in DOMAIN nodes :
                         \E b \in RecordsOf(f) : b.block_id = i /\ b.node_id = n

\* C6 (replication count): a successful distribute of a file with B blocks on
\* n registered nodes stores exactly B x min(REPLICATION_FACTOR, n) copies,
\* min(REPLICATION_FACTOR, n) per block index and no two of one index on the
\* same node; with two nodes every block is on both nodes and the state
\* distribute_file_blocks returns has every node's used_storage grown by the
\* size of the file.
C6_ReplicationCount ==
    [][(ret'.op = "upload" /\ ret'.ok /\ next_id' = next_id + 1)
       => /\ C6_Copies(ret.file, ret.size)'
          /\ Len(order) = 2 =>
                 LET d == distribute_file_blocks(Cur, Content(next_id, ret'.size),
                                                 next_id, 0)
                 IN /\ d.ok
                    /\ d.st.file_blocks = file_blocks'
                    /\ d.st.fs = fs'
                    /\ d.st.vdisks = vdisks'
                    /\ \A n \in DOMAIN nodes :
                           d.st.nodes[n].used_storage =
                               nodes[n].used_storage + ret'.size]_vars

\* C6's case: a file of two blocks was uploaded while three nodes were
\* registered, so that each block has two copies and one node has none of it
C6_Witness ==
    /\ ret.op = "upload"
    /\ ret.ok
    /\ ret.size > BLOCK_SIZE
    /\ Len(order) = 3
    /\ C6_Copies(ret.file, ret.size)

\* C7 (primary uniqueness, gap-free indices): a distributed file of B blocks
\* has exactly one primary record per index 0..B-1 and none outside; every
\* replica record names its own block index in replica_of_block_id, which is
\* the index of a primary of the file with the same checksum and size.
C7_PrimaryUnique ==
    \A file \in files :
        RecordsOf(file.file_id) # {} =>
            LET f == file.file_id
                B == NumBlocks(file.file_size)
            IN /\ \A i \in 0..(B - 1) : CountRecords(f, i, FALSE) = 1
               /\ \A b \in RecordsOf(f) : b.block_id \in 0..(B - 1)
               /\ \A b \in RecordsOf(f) :
                      b.is_replica =>
                          /\ b.replica_of_block_id = b.block_id
                          /\ \E p \in RecordsOf(f) :
                                 /\ ~p.is_replica
                                 /\ p.block_id = b.replica_of_block_id
                                 /\ p.checksum = b.checksum
                                 /\ p.block_size = b.block_size

\* C7's case: a file of two blocks, each with a primary and a replica
C7_Witness ==
    /\ ret.op = "upload"
    /\ ret.ok
    /\ ret.size > BLOCK_SIZE
    /\ \A i \in 0..1 : CountRecords(ret.file, i, TRUE) = 1

\* C8 (distribute then delete restores the accounting): from every state S in
\* which an upload of a file F succeeds, deleting F right after leaves every
\* node's used_storage at its value in S and no block record of F; and a
\* delete lowers each registered node's used_storage by the sizes of the
\* file's records on it, not below zero.
C8_DistributeDeleteIdentity ==
    /\ \A len \in 1..MaxFileLen :
           LET up == upload_file(Cur, len, 0)
               del == delete_file(up, up.ret.file, {})
           IN up.ret.ok =>
                  /\ \A n \in DOMAIN nodes :
                         del.nodes[n].used_storage = nodes[n].used_storage
                  /\ \A k \in DOMAIN del.file_blocks :
                         del.file_blocks[k].file_id # up.ret.file
    /\ \A f \in FileIds(Cur) :
           LET del == delete_file(Cur, f, {})
           IN \A n \in DOMAIN nodes :
                  del.nodes[n].used_storage =
                      Max(0, nodes[n].used_storage
                             - SumSeq([k \in DOMAIN BlocksOfFile(Cur, f) |->
                                          IF BlocksOfFile(Cur, f)[k].node_id = n
                                          THEN BlocksOfFile(Cur, f)[k].block_size
                                          ELSE 0]))

\* C9 (delete reclaims the bytes): after a delete of a file none of whose
\* removals fails, no node returns bytes for any block the file had a record
\* of, whether the record named a virtual-disk location or a path.
C9_DeleteReclaims ==
    \A f \in FileIds(Cur) :
        LET del == delete_file(Cur, f, {})
        IN \A b \in RecordsOf(f) :
               ~retrieve_block(del, b.node_id, f, b.block_id).found

C11_EmptyRejected ==
    [][(ret'.op = "upload" /\ next_id' = next_id + 1 /\ ret'.size = 0)
       => (/\ ~ret'.ok
           /\ LET d == distribute_file_blocks(Cur, Content(next_id, 0), next_id, 0)
              IN ~d.ok /\ ~d.raised /\ d.st = Cur /\ d.pending = <<>>
           /\ file_blocks' = file_blocks
           /\ fs' = fs
           /\ vdisks' = vdisks
           /\ nodes' = nodes
           /\ \A f \in files' : f.file_id # next_id
           /\ files' = files)]_vars

\* C11's case: an empty upload was refused while an earlier file is stored
C11_Witness ==
    /\ ret.op = "upload"
    /\ ret.size = 0
    /\ ~ret.ok
    /\ ret.file \notin FileIds(Cur)
    /\ file_blocks # <<>>

\* C12 (round-robin placement): for every block index i and replica count r,
\* on the n registered nodes in their order, select_nodes_for_block gives
\* min(r, n) nodes, the k-th (k = 0, 1, ...) being the node at position
\* (i + k) mod n; they are pairwise distinct, the result is empty only when
\* n = 0, and a distribute puts the primary of block i on the first of them
\* and its replicas on the others.
C12_RoundRobin ==
    /\ \A i \in 0..MaxBlockId : \A r \in 1..MaxReplicas :
           LET n == Len(order)
               sel == select_nodes_for_block(order, i, r)
           IN /\ Len(sel) = Min(r, n)
              /\ \A k \in 0..(Len(sel) - 1) : sel[k + 1] = order[((i + k) % n) + 1]
              /\ \A j, k \in DOMAIN sel : j # k => sel[j] # sel[k]
              /\ (sel = <<>>) <=> (n = 0)
    /\ \A len \in 1..MaxFileLen :
           LET d == distribute_file_blocks(Cur, Content(next_id, len), next_id, 0)
               mine == SelectSeq(d.st.file_blocks, LAMBDA b : b.file_id = next_id)
           IN d.ok =>
                  \A j \in DOMAIN mine :
                      LET sel == select_nodes_for_block(order, mine[j].block_id,
                                                        REPLICATION_FACTOR)
                      IN IF mine[j].is_replica
                         THEN \E k \in 2..Len(sel) : mine[j].node_id = sel[k]
                         ELSE mine[j].node_id = sel[1]

\* C12's case: on two nodes the placement of block 1 wrapped around: its
\* primary is on the second node, its replica on the first
C12_Witness ==
    /\ ret.op = "upload"
    /\ ret.ok
    /\ Len(order) = 2
    /\ \E p, q \in RecordsOf(ret.file) :
           /\ p.block_id = 1 /\ ~p.is_replica /\ p.node_id = order[2]
           /\ q.block_id = 1 /\ q.is_replica /\ q.node_id = order[1]

\* C13 (a failed upload rolls its metadata back): after an upload that is
\* answered with a failure, whether distribute returned False or raised in
\* the block loop, the tables hold no block record and no File record of
\* that upload.
C13_FailedUploadRollsBack ==
    [][(ret'.op = "upload" /\ next_id' = next_id + 1 /\ ~ret'.ok)
       => (/\ \A k \in DOMAIN file_blocks' : file_blocks'[k].file_id # next_id
           /\ \A f \in files' : f.file_id # next_id)]_vars

C15_FileLifecycle ==
    /\ \A b \in Records : b.file_id \in FileIds(Cur)
    /\ \A f \in FileIds(Cur) : \A bad \in BadSets :
           LET blocks_gone == delete_file_blocks(Cur, f, bad)
               done == delete_file(Cur, f, bad)
           IN /\ f \in FileIds(blocks_gone)
              /\ BlocksOfFile(blocks_gone, f) = <<>>
              /\ f \notin FileIds(done)
              /\ done.file_blocks = blocks_gone.file_blocks
    /\ \A len \in 0..MaxFileLen : \A fail_at \in 0..MaxFaultAt :
           LET up == upload_file(Cur, len, fail_at)
           IN next_id \notin FileIds(up) => BlocksOfFile(up, next_id) = <<>>

\* C15's case: a file was deleted, its records with it, while the records of
\* another file stay with their File record
C15_Witness ==
    /\ ret.op = "delete"
    /\ ret.ok
    /\ ret.file \notin FileIds(Cur)
    /\ RecordsOf(ret.file) = {}
    /\ \E b \in Records : b.is_replica

\* C16 (a failed reconstruct leaves no partial output): after a download
\* that is answered with a failure there is no output file download_<file>,
\* whatever reconstruct_file had written when it gave up.
C16_NoPartialOutput ==
    (ret.op = "download" /\ ~ret.ok) => ret.file \notin DOMAIN downloads

C18_SerializedAccounting ==
    (\A t \in Threads : tasks[t].pc = "idle")
    => \A n \in DOMAIN nodes : nodes[n].used_storage = BlockBytesOn(Cur, n)

\* The counters of st agree with its block table
Consistent(st) ==
    \A n \in DOMAIN st.nodes : st.nodes[n].used_storage = BlockBytesOn(st, n)

\* C19 (self-healing accounting): whatever the counters hold, the refresh
\* sets every registered node's used_storage to the sum of the sizes of the
\* block records on it and touches nothing else; a second refresh changes
\* nothing more; a refresh of consistent counters changes nothing; and the
\* state after the admin dashboard, a successful upload or a delete is
\* consistent.
C19_SelfHealing ==
    LET once == RefreshNodeStorage(Cur)
        twice == RefreshNodeStorage(once)
    IN /\ DOMAIN once.nodes = DOMAIN nodes
       /\ \A n \in DOMAIN nodes :
              once.nodes[n] = [nodes[n] EXCEPT !.used_storage = BlockBytesOn(Cur, n)]
       /\ once = [Cur EXCEPT !.nodes = once.nodes]
       /\ twice = once
       /\ Consistent(Cur) => once = Cur
       /\ Consistent(admin_dashboard(Cur))
       /\ (ret.op = "admin" \/ (ret.op \in {"upload", "delete"} /\ ret.ok))
              => Consistent(Cur)

\* C19's case: the dashboard was shown after an upload that raised had left
\* a stored copy without a record, counted on its node, and the counters
\* agree with the block table again
C19_Witness ==
    /\ ret.op = "admin"
    /\ Consistent(Cur)
    /\ file_blocks # <<>>
    /\ \E copy \in StoredCopies(Cur) :
           /\ copy[3] \in FileIds(Cur)
           /\ RecordsOf(copy[3]) = {}

\* C20 (chunking): for every input the next upload may bring, of N bytes,
\* split_file_into_blocks gives ceil(N / BLOCK_SIZE) blocks whose bytes, put
\* one after the other, are the input; every block but the last has
\* BLOCK_SIZE bytes and the last has 1 to BLOCK_SIZE; an empty input gives
\* no block; each checksum is the digest of exactly its block's bytes, the
\* same at every call.
C20_Chunking ==
    \A f \in 1..MaxFiles : \A N \in 0..MaxFileLen :
        LET data == Content(f, N)
            blocks == split_file_into_blocks(data)
            B == Len(blocks)
        IN /\ B * BLOCK_SIZE >= N
           /\ (B - 1) * BLOCK_SIZE < N \/ (N = 0 /\ B = 0)
           /\ B = NumBlocks(N)
           /\ Flatten([i \in 1..B |-> blocks[i].data]) = data
           /\ \A i \in 1..(B - 1) : Len(blocks[i].data) = BLOCK_SIZE
           /\ B > 0 => Len(blocks[B].data) \in 1..BLOCK_SIZE
           /\ (N = 0) => (blocks = <<>>)
           /\ \A i \in 1..B :
                  /\ blocks[i].checksum = Md5(blocks[i].data)
                  /\ blocks[i].data = BlockBytes(data, i - 1)
           /\ split_file_into_blocks(data) = blocks
           /\ (f = next_id /\ N > 0 /\ ~PrecheckFails(Cur, blocks)) =>
                  LET d == distribute_file_blocks(Cur, data, f, 0)
                      prim == PrimariesOf(d.st, f)
                  IN /\ Len(prim) = B
                     /\ \A i \in 1..B :
                            /\ prim[i].block_id = i - 1
                            /\ prim[i].block_size = Len(blocks[i].data)
                            /\ prim[i].checksum = blocks[i].checksum

\* C20's case: a file of more than one block whose last block is short has
\* been split and stored
C20_Witness ==
    /\ ret.op = "upload"
    /\ ret.ok
    /\ ret.size > BLOCK_SIZE
    /\ ret.size % BLOCK_SIZE # 0
    /\ \E b, c \in RecordsOf(ret.file) :
           /\ b.block_id = 0 /\ b.block_size = BLOCK_SIZE
           /\ c.block_id = NumBlocks(ret.size) - 1
           /\ c.block_size = ret.size % BLOCK_SIZE
           /\ c.checksum = Md5(BlockBytes(original[ret.file], c.block_id))

\* The counters and the capacities of the cluster, summed node by node
SumUsed ==
    LET ids == SeqOfSet(DOMAIN nodes)
    IN SumSeq([i \in DOMAIN ids |-> nodes[ids[i]].used_storage])
SumTotal ==
    LET ids == SeqOfSet(DOMAIN nodes)
    IN SumSeq([i \in DOMAIN ids |-> nodes[ids[i]].total_storage])

\* C21 (aggregate capacity bound): through uploads, deletes, add_node and
\* extend_node, run one after the other, the sum of used_storage over the
\* nodes stays at most the sum of total_storage; an upload raises the sum of
\* the counters by at most size x REPLICATION_FACTOR, which the precheck
\* found free.
C21_AggregateBound ==
    /\ SumUsed <= SumTotal
    /\ \A len \in 0..MaxFileLen : \A fail_at \in 0..MaxFaultAt :
           LET d == distribute_file_blocks(Cur, Content(next_id, len), next_id, fail_at)
               grown == SumSeq([i \in DOMAIN order |->
                                   d.st.nodes[order[i]].used_storage
                                       - nodes[order[i]].used_storage])
           IN /\ grown >= 0
              /\ grown <= len * REPLICATION_FACTOR
              /\ grown > 0 => len * REPLICATION_FACTOR <= SumTotal - SumUsed

\* C21's case: an upload has filled the cluster to the last byte, on a
\* registry that a request has enlarged
C21_Witness ==
    /\ ret.op = "upload"
    /\ ret.ok
    /\ admin_ops > 0
    /\ SumUsed = SumTotal
    /\ \E n \in DOMAIN nodes : nodes[n].used_storage > nodes[n].total_storage

\* C22 (referential integrity of placements): every block record names a
\* node that is registered, and delete_node answers success for no node
\* that a block record is assigned to.
C22_PlacementIntegrity ==
    /\ \A b \in Records : b.node_id \in Range(order) /\ b.node_id \in DOMAIN nodes
    /\ \A node_id \in NodeIds : \A rmtree_fails \in BOOLEAN :
           LET removed == delete_node(Cur, node_id, rmtree_fails)
           IN (\E b \in Records : b.node_id = node_id) =>
                  /\ ~removed.ret.ok
                  /\ removed.order = order
                  /\ removed.nodes = nodes

\* C22's case: a node without blocks was removed while the other nodes hold
\* the blocks of a file
C22_Witness ==
    /\ ret.op = "delete_node"
    /\ ret.ok
    /\ ret.node \notin DOMAIN nodes
    /\ \E b \in Records : b.is_replica
    /\ \A b \in Records : b.node_id \in DOMAIN nodes

\* The stored copies of file g in st, each with its bytes
CopiesOf(st, g) ==
    {<<copy, BytesAt(st, copy)>> : copy \in {c \in StoredCopies(st) : c[3] = g}}

\* What is kept of file g from state `before` to state `after`: its File
\* record, its block records, its stored copies and what it reconstructs to
Unaffected(before, after, g) ==
    /\ (g \in FileIds(after)) <=> (g \in FileIds(before))
    /\ BlocksOfFile(after, g) = BlocksOfFile(before, g)
    /\ CopiesOf(after, g) = CopiesOf(before, g)
    /\ reconstruct_file(after, g) = reconstruct_file(before, g)

\* C23 (isolation between files): in every state, an upload or a delete of
\* a file F, and add_node and extend_node, leave the block records and the
\* stored copies of every other file G as they were, and G reconstructs to
\* the same bytes (or fails the same way) after the request as before it.
C23_FileIsolation ==
    \A g \in 1..MaxFiles :
        /\ (next_id <= MaxFiles /\ g # next_id) =>
               \A len \in 0..MaxFileLen, fail_at \in 0..MaxFaultAt :
                   Unaffected(Cur, upload_file(Cur, len, fail_at), g)
        /\ \A file_id \in 1..MaxFiles \ {g}, bad \in BadSets :
               Unaffected(Cur, delete_file(Cur, file_id, bad), g)
        /\ \A node_id \in NodeIds, storage \in AddCapacities :
               Unaffected(Cur, add_node(Cur, node_id, storage), g)
        /\ \A node_id \in NodeIds, delta \in ExtendDeltas :
               Unaffected(Cur, extend_node(Cur, node_id, delta), g)

\* C23's case: a file was deleted and another file, stored on the same
\* nodes, still reconstructs to the bytes that were uploaded
C23_Witness ==
    /\ ret.op = "delete"
    /\ ret.ok
    /\ \E g \in FileIds(Cur) :
           /\ g # ret.file
           /\ RecordsOf(g) # {}
           /\ reconstruct_file(Cur, g).ok
           /\ Flatten(reconstruct_file(Cur, g).written) = original[g]

\* C24 (download artifacts are not clobbered): in every state, while a
\* download has produced its artifact and has not finished sending it, the
\* artifact is at its path and holds the bytes that download wrote: no
\* timer of another download has removed it, no reconstruct of another
\* download has truncated or rewritten it.
C24_NoClobber ==
    \A t \in Threads :
        tasks[t].pc = "send" =>
            /\ tasks[t].file \in DOMAIN downloads
            /\ downloads[tasks[t].file] = tasks[t].out

====
